---- MODULE Spec2Model ----
(***************************************************************************)
(* SightNotes session capture orchestrator (backend/main.py) and the       *)
(* read-side snapshot parser (backend/api_server.py).                      *)
(*                                                                         *)
(* Text is modelled at character level: a Python str is a sequence of      *)
(* one-character strings, so strip(), lower(), the `in` substring test,    *)
(* str.replace(_, _, 1), str.split and the regular expressions of the      *)
(* source are computed on the characters, as the code computes them.       *)
(***************************************************************************)
EXTENDS Naturals, Sequences, FiniteSets, TLC

(***************************************************************************)
(* Bounds of the model.  The source runs 120 captures with a 30-tick wait  *)
(* between two of them; the model runs the same loops with small limits.   *)
(***************************************************************************)
MAX_CAPTURES == 3

INTERVAL_TICKS == 2

(***************************************************************************)
(* Python str primitives.                                                  *)
(***************************************************************************)
Whitespace == {" ", "\n", "\t"}

UpperOf ==
  [c \in {"a","b","c","d","e","f","g","h","i","j","k","l","m","n","o","p","q",
          "r","s","t","u","v","w","x","y","z"} |->
     CASE c = "a" -> "A" [] c = "b" -> "B" [] c = "c" -> "C" [] c = "d" -> "D"
       [] c = "e" -> "E" [] c = "f" -> "F" [] c = "g" -> "G" [] c = "h" -> "H"
       [] c = "i" -> "I" [] c = "j" -> "J" [] c = "k" -> "K" [] c = "l" -> "L"
       [] c = "m" -> "M" [] c = "n" -> "N" [] c = "o" -> "O" [] c = "p" -> "P"
       [] c = "q" -> "Q" [] c = "r" -> "R" [] c = "s" -> "S" [] c = "t" -> "T"
       [] c = "u" -> "U" [] c = "v" -> "V" [] c = "w" -> "W" [] c = "x" -> "X"
       [] c = "y" -> "Y" [] c = "z" -> "Z"]

LowerLetters == DOMAIN UpperOf

UpperLetters == {UpperOf[c] : c \in LowerLetters}

IsLetter(c) == c \in LowerLetters \cup UpperLetters

LowerChar(c) ==
  IF c \in UpperLetters THEN CHOOSE l \in LowerLetters : UpperOf[l] = c ELSE c

UpperChar(c) == IF c \in LowerLetters THEN UpperOf[c] ELSE c

\* str.lower()
Lower(s) == [i \in 1..Len(s) |-> LowerChar(s[i])]

\* str.lstrip(): drop the leading characters that are in chars
RECURSIVE LStripChars(_, _)
LStripChars(s, chars) ==
  IF s # <<>> /\ Head(s) \in chars THEN LStripChars(Tail(s), chars) ELSE s

\* str.rstrip()
RECURSIVE RStripChars(_, _)
RStripChars(s, chars) ==
  IF s # <<>> /\ s[Len(s)] \in chars
    THEN RStripChars(SubSeq(s, 1, Len(s) - 1), chars)
    ELSE s

StripChars(s, chars) == RStripChars(LStripChars(s, chars), chars)

\* str.strip()
Strip(s) == StripChars(s, Whitespace)

\* whether pat occurs in s at position i
MatchAt(s, pat, i) ==
  /\ i >= 1
  /\ i + Len(pat) - 1 <= Len(s)
  /\ \A k \in 1..Len(pat) : s[i + k - 1] = pat[k]

\* str.find(), 1-based; 0 when pat does not occur
IndexOf(s, pat) ==
  LET hits == {i \in 1..(Len(s) + 1) : MatchAt(s, pat, i)}
  IN  IF hits = {} THEN 0 ELSE CHOOSE i \in hits : \A j \in hits : i <= j

\* pat in s
Contains(s, pat) == IndexOf(s, pat) # 0

\* s.replace(old, new, 1)
ReplaceFirst(s, old, new) ==
  LET i == IndexOf(s, old)
  IN  IF i = 0 THEN s
      ELSE SubSeq(s, 1, i - 1) \o new \o SubSeq(s, i + Len(old), Len(s))

\* s.split(sep) for a non-empty separator
RECURSIVE SplitOn(_, _)
SplitOn(s, sep) ==
  LET i == IndexOf(s, sep)
  IN  IF i = 0 THEN <<s>>
      ELSE <<SubSeq(s, 1, i - 1)>> \o SplitOn(SubSeq(s, i + Len(sep), Len(s)), sep)

\* s.split(): the maximal runs of non-whitespace characters
RECURSIVE SplitWords(_)
SplitWords(s) ==
  LET t == LStripChars(s, Whitespace)
      ends == {i \in 1..Len(t) : t[i] \in Whitespace}
      e == IF ends = {} THEN Len(t) + 1 ELSE CHOOSE i \in ends : \A j \in ends : i <= j
  IN  IF t = <<>> THEN <<>>
      ELSE <<SubSeq(t, 1, e - 1)>> \o SplitWords(SubSeq(t, e, Len(t)))

\* "".join(parts) and sep.join(parts)
RECURSIVE Join(_, _)
Join(parts, sep) ==
  IF parts = <<>> THEN <<>>
  ELSE IF Len(parts) = 1 THEN parts[1]
  ELSE parts[1] \o sep \o Join(Tail(parts), sep)

\* str(n) of a natural number
DigitChar(d) ==
  CASE d = 0 -> "0" [] d = 1 -> "1" [] d = 2 -> "2" [] d = 3 -> "3" [] d = 4 -> "4"
    [] d = 5 -> "5" [] d = 6 -> "6" [] d = 7 -> "7" [] d = 8 -> "8" [] d = 9 -> "9"

RECURSIVE Decimal(_)
Decimal(n) ==
  IF n < 10 THEN <<DigitChar(n)>> ELSE Decimal(n \div 10) \o <<DigitChar(n % 10)>>

\* the text of s from position i to the end of its line
RestOfLine(s, i) ==
  LET nls == {j \in i..Len(s) : s[j] = "\n"}
      e == IF nls = {} THEN Len(s) + 1 ELSE CHOOSE j \in nls : \A k \in nls : j <= k
  IN  SubSeq(s, i, e - 1)

(***************************************************************************)
(* String constants of the source.                                         *)
(***************************************************************************)
SENTINEL == <<"n","o"," ","l","e","c","t","u","r","e"," ","c","o","n","t","e","n","t"," ","d","e","t","e","c","t","e","d">>

MARKER == <<"#","#"," ","S","n","a","p","s","h","o","t"," ">>

DEFAULT_TOPIC == <<"S","i","g","h","t","N","o","t","e","s">>

SLIDE_TITLE == <<"*","*","S","l","i","d","e"," ","T","i","t","l","e">>

KEY_CONCEPTS == <<"#","#","#"," ","K","e","y"," ","C","o","n","c","e","p","t","s","\n","-"," ">>

STOP_WORDS ==
  { <<"s","t","o","p">>, <<"e","n","d">>, <<"q","u","i","t">>,
    <<"f","i","n","i","s","h">>, <<"b","y","e">>, <<"s","a","v","e">> }

\* datetime.now() formatted: the clock is outside the model, a session is
\* created at StampInit and, at least the settle delay later, renamed at
\* StampRename.
StampInit == <<"T","0">>

StampRename == <<"T","1">>

(***************************************************************************)
(* slugify: keep letters and whitespace, split, capitalize the first four  *)
(* words, concatenate.                                                     *)
(***************************************************************************)
Capitalize(w) ==
  IF w = <<>> THEN <<>> ELSE <<UpperChar(w[1])>> \o Lower(Tail(w))

slugify(text) ==
  LET kept == SelectSeq(text, LAMBDA c : IsLetter(c) \/ c \in Whitespace)
      words == SplitWords(kept)
      first == SubSeq(words, 1, IF Len(words) < 4 THEN Len(words) ELSE 4)
  IN  Join([i \in 1..Len(first) |-> Capitalize(first[i])], <<>>)

\* f"notes/{slug}_{date}.md"
NotesPath(slug, date) == [dir |-> "notes", slug |-> slug, date |-> date, ext |-> ".md"]

\* the three writes of init_notes_file
Header(topic) ==
  <<"#"," ">> \o topic \o <<"\n","\n">>
    \o <<"*","S","t","a","r","t","e","d",":"," ">> \o StampInit \o <<"*","\n","\n">>
    \o <<"-","-","-","\n","\n">>

(***************************************************************************)
(* extract_topic_from_note: three regular expressions tried in order.      *)
(***************************************************************************)
\* \*\*Slide Title[:\*]+\*?\*?\s*(.+)  matched at i with [:\*]+ taking a
\* characters, the two \*? taking b and c, \s* taking w: the group then
\* starts at the returned position and must hold one character of the line.
SlideTitleGroupStart(s, i, a, b, c, w) == i + Len(SLIDE_TITLE) + a + b + c + w

SlideTitleMatch(s, i, a, b, c, w) ==
  LET p == i + Len(SLIDE_TITLE)
      q == SlideTitleGroupStart(s, i, a, b, c, w)
  IN  /\ MatchAt(s, SLIDE_TITLE, i)
      /\ a >= 1
      /\ \A k \in p..(p + a - 1) : k <= Len(s) /\ s[k] \in {":", "*"}
      /\ b = 1 => (p + a <= Len(s) /\ s[p + a] = "*")
      /\ c = 1 => (p + a + b <= Len(s) /\ s[p + a + b] = "*")
      /\ \A k \in (p + a + b + c)..(q - 1) : k <= Len(s) /\ s[k] \in Whitespace
      /\ q <= Len(s)
      /\ s[q] # "\n"

\* leftmost start, then the greedy quantifiers in order: the greatest
\* (a, b, c, w) in lexicographic order
SlideTitlePrefers(m, n) ==
  \/ m[1] < n[1]
  \/ m[1] = n[1] /\ m[2] > n[2]
  \/ m[1] = n[1] /\ m[2] = n[2] /\ m[3] > n[3]
  \/ m[1] = n[1] /\ m[2] = n[2] /\ m[3] = n[3] /\ m[4] > n[4]
  \/ m[1] = n[1] /\ m[2] = n[2] /\ m[3] = n[3] /\ m[4] = n[4] /\ m[5] >= n[5]

SlideTitleMatches(s) ==
  LET starts == {i \in 1..Len(s) : MatchAt(s, SLIDE_TITLE, i)}
  IN  {m \in starts \X (1..Len(s)) \X {0, 1} \X {0, 1} \X (0..Len(s)) :
         SlideTitleMatch(s, m[1], m[2], m[3], m[4], m[5])}

\* \*\*(.+?)\*\*  : <<i, j>> with the group s[i+2 .. j-1]
BoldMatches(s) ==
  LET stars == {i \in 1..Len(s) : MatchAt(s, <<"*","*">>, i)}
  IN  {m \in stars \X stars :
         /\ m[2] >= m[1] + 3
         /\ \A k \in (m[1] + 2)..(m[2] - 1) : s[k] # "\n"}

\* ### Key Concepts\n- (.+)
ConceptsMatches(s) ==
  {i \in 1..Len(s) :
     /\ MatchAt(s, KEY_CONCEPTS, i)
     /\ i + Len(KEY_CONCEPTS) <= Len(s)
     /\ s[i + Len(KEY_CONCEPTS)] # "\n"}

extract_topic_from_note(note_text) ==
  LET T == SlideTitleMatches(note_text)
      B == BoldMatches(note_text)
      K == ConceptsMatches(note_text)
  IN  IF T # {}
        THEN LET m == CHOOSE x \in T : \A y \in T : SlideTitlePrefers(x, y)
                 g == RestOfLine(note_text,
                                 SlideTitleGroupStart(note_text, m[1], m[2], m[3], m[4], m[5]))
             IN  StripChars(Strip(g), {"*"})
      ELSE IF B # {}
        THEN LET m == CHOOSE x \in B :
                        \A y \in B : x[1] < y[1] \/ (x[1] = y[1] /\ x[2] <= y[2])
             IN  Strip(SubSeq(note_text, m[1] + 2, m[2] - 1))
      ELSE IF K # {}
        THEN LET i == CHOOSE x \in K : \A y \in K : x <= y
             IN  Strip(RestOfLine(note_text, i + Len(KEY_CONCEPTS)))
      ELSE DEFAULT_TOPIC

(***************************************************************************)
(* append_note: the block written for one snapshot.                        *)
(***************************************************************************)
SnapshotBlock(note_text, snapshot_num) ==
  MARKER \o Decimal(snapshot_num) \o <<"\n","\n">>
    \o Strip(note_text)
    \o <<"\n","\n","-","-","-","\n","\n">>

(***************************************************************************)
(* parse_snapshots (api_server.py): split on the marker, drop the part     *)
(* before the first marker, first line is the number, the rest the body.   *)
(***************************************************************************)
ParsePart(part) ==
  LET lines == SplitOn(Strip(part), <<"\n">>)
      num == Strip(lines[1])
      body == Strip(LStripChars(Strip(Join(Tail(lines), <<"\n">>)), {"-"}))
  IN  [number |-> num, content |-> body]

parse_snapshots(content) ==
  LET parts == Tail(SplitOn(content, MARKER))
  IN  [i \in 1..Len(parts) |-> ParsePart(parts[i])]

(***************************************************************************)
(* What the environment can hand to the session: oracle responses in the   *)
(* three shapes the code normalizes, oracle errors, transcript events.     *)
(***************************************************************************)
TextBST == <<"*","*","B","i","n","a","r","y"," ","S","e","a","r","c","h"," ","T","r","e","e","s","*","*","\n","#","#","#"," ","K","e","y"," ","C","o","n","c","e","p","t","s","\n","-"," ","N","o","d","e","s">>

TextGraphs == <<" "," ","G","r","a","p","h","s","\n">>

TextSentinel == <<"N","o"," ","l","e","c","t","u","r","e"," ","c","o","n","t","e","n","t"," ","d","e","t","e","c","t","e","d",".">>

TextSentinelUpper == <<" ","N","O"," ","L","E","C","T","U","R","E"," ","C","O","N","T","E","N","T"," ","D","E","T","E","C","T","E","D","\n">>

TextBlank == <<" ","\n">>

Responses ==
  { [kind |-> "str", val |-> TextBST],
    [kind |-> "text", val |-> TextGraphs],
    [kind |-> "str", val |-> TextSentinel],
    [kind |-> "content", val |-> TextSentinelUpper],
    [kind |-> "text", val |-> TextBlank],
    [kind |-> "object", val |-> <<>>] }

Err429 == <<"4","2","9"," ","T","o","o"," ","M","a","n","y"," ","R","e","q","u","e","s","t","s">>

ErrQuota == <<"Q","u","o","t","a"," ","e","x","c","e","e","d","e","d">>

ErrTimeout == <<"t","i","m","e","o","u","t">>

OracleErrors == {Err429, ErrQuota, ErrTimeout}

HearStop == <<"P","l","e","a","s","e"," ","s","t","o","p"," ","n","o","w">>

HearFine == <<"I"," ","a","m"," ","f","i","n","e">>

HearGoodbye == <<" ","G","o","o","d","B","y","e"," ","\n">>

\* an event carries a text, or none (getattr(event, "text", "") or "")
Events ==
  { [text |-> <<HearStop>>], [text |-> <<HearFine>>], [text |-> <<HearGoodbye>>],
    [text |-> <<>>] }

(***************************************************************************)
(* The session's state.                                                    *)
(***************************************************************************)
VARIABLES
  session_notes,   \* global list of the accepted texts
  NOTES_FILE,      \* global: path of the notes log
  TOPIC_NAME,      \* global: None, or Some(topic)
  fs,              \* the notes directory: path -> file content
  should_stop,     \* should_stop["value"]
  capture_count,   \* local counter of auto_capture
  capture_pc,      \* where auto_capture is suspended
  tick,            \* index of the interval loop, for _ in range(30)
  sleeping,        \* argument of the pending asyncio.sleep of auto_capture, 0 if none
  reply,           \* outcome of the oracle call in flight, None until it arrives
  listen_pc,       \* where listen_for_stop is suspended
  inbox,           \* event the stream has yielded and the listener not yet taken
  join_pc,         \* where join_call is suspended
  notifications,   \* the agent.simple_response calls of the two workers, in order
  renames,         \* the rename_notes_file calls, in order
  last_cycle       \* branch taken for the last oracle call that came back

vars ==
  <<session_notes, NOTES_FILE, TOPIC_NAME, fs, should_stop, capture_count,
    capture_pc, tick, sleeping, reply, listen_pc, inbox, join_pc,
    notifications, renames, last_cycle>>

None == <<>>

Some(x) == <<x>>

SETTLE_DELAY == 20

COOLDOWN == 60

TICK == 1

(***************************************************************************)
(* init_notes_file("SightNotes"): the directory after the header is        *)
(* written, and the path returned.                                         *)
(***************************************************************************)
init_notes_file(topic) ==
  LET filename == NotesPath(slugify(topic), StampInit)
  IN  [path |-> filename, fs |-> (filename :> Header(topic))]

(***************************************************************************)
(* rename_notes_file: os.rename either moves the file (moved) or raises,   *)
(* and then the old path is kept.                                          *)
(***************************************************************************)
\* rename_notes_file that returns the new path when the move failed too
rename_notes_file_forgets(fsys, old_path, topic, moved) ==
  LET new_path == NotesPath(slugify(topic), StampRename)
  IN  IF moved
        THEN [path |-> new_path,
              fs |-> [q \in (DOMAIN fsys \ {old_path}) \cup {new_path} |->
                        IF q = new_path THEN fsys[old_path] ELSE fsys[q]]]
        ELSE [path |-> new_path, fs |-> fsys]

rename_notes_file(fsys, old_path, topic, moved) ==
  LET new_path == NotesPath(slugify(topic), StampRename)
  IN  IF moved
        THEN [path |-> new_path,
              fs |-> [q \in (DOMAIN fsys \ {old_path}) \cup {new_path} |->
                        IF q = new_path THEN fsys[old_path] ELSE fsys[q]]]
        ELSE [path |-> old_path, fs |-> fsys]

\* the read, replace and write of the first snapshot's branch
RewriteTitle(fsys, path, topic) ==
  [fsys EXCEPT ![path] = ReplaceFirst(@, <<"#"," ">> \o DEFAULT_TOPIC, <<"#"," ">> \o topic)]

\* append_note that keeps the block in a buffer and writes nothing
append_note_buffered(fsys, filename, text, snapshot_num) == fsys

\* append_note that opens the file with "w"
append_note_truncating(fsys, filename, text, snapshot_num) ==
  [fsys EXCEPT ![filename] = SnapshotBlock(text, snapshot_num)]

\* open(filename, "a") and the three writes
append_note(fsys, filename, text, snapshot_num) ==
  [fsys EXCEPT ![filename] = @ \o SnapshotBlock(text, snapshot_num)]

\* the response normalized to plain text, stripped
Normalize(response) ==
  Strip(IF response.kind \in {"str", "text", "content"} THEN response.val ELSE <<>>)

\* the sentinel test without .lower()
Accepted_case_sensitive(text) == text # <<>> /\ ~Contains(text, SENTINEL)

\* if note_text and "no lecture content detected" not in note_text.lower()
Accepted(text) ==
  text # <<>> /\ \A lowered \in {Lower(text)} : ~Contains(lowered, SENTINEL)

\* the quota test without .lower()
IsRateLimit_case_sensitive(e) ==
  Contains(e, <<"4","2","9">>) \/ Contains(e, <<"q","u","o","t","a">>)

\* if "429" in err or "quota" in err.lower()
IsRateLimit(e) ==
  Contains(e, <<"4","2","9">>) \/ Contains(Lower(e), <<"q","u","o","t","a">>)

\* any(w in transcript for w in [...])
IsStopIntent(t) == \E w \in STOP_WORDS : Contains(t, w)

(***************************************************************************)
(* Control flow of auto_capture between two suspension points.  Each       *)
(* operator gives where the worker suspends next, the value it leaves in   *)
(* should_stop and the notifications it sends on the way.                  *)
(***************************************************************************)
Summary(kind, saved) == [kind |-> kind, saved |-> saved]

\* after_loop that clears the flag when it finds it set
after_loop_reset(stop, notes) ==
  IF ~stop
    THEN [pc |-> "announce", tick |-> 0, sleeping |-> 0, stop |-> TRUE,
          say |-> <<Summary("complete", Len(notes))>>]
    ELSE [pc |-> "done", tick |-> 0, sleeping |-> 0, stop |-> FALSE, say |-> <<>>]

\* after_loop that sets the flag and says nothing
after_loop_silent(stop, notes) ==
  [pc |-> "done", tick |-> 0, sleeping |-> 0, stop |-> TRUE, say |-> <<>>]

\* after the while loop: if not should_stop: set it, say "Session complete!"
after_loop(stop, notes) ==
  IF ~stop
    THEN [pc |-> "announce", tick |-> 0, sleeping |-> 0, stop |-> TRUE,
          say |-> <<Summary("complete", Len(notes))>>]
    ELSE [pc |-> "done", tick |-> 0, sleeping |-> 0, stop |-> stop, say |-> <<>>]

\* while_head that tests the counter only
while_head_ignores_stop(stop, count, notes) ==
  IF count < MAX_CAPTURES
    THEN [pc |-> "llm", tick |-> 0, sleeping |-> 0, stop |-> stop, say |-> <<>>]
    ELSE after_loop(stop, notes)

\* while_head that tests capture_count <= MAX_CAPTURES
while_head_off_by_one(stop, count, notes) ==
  IF ~stop /\ count <= MAX_CAPTURES
    THEN [pc |-> "llm", tick |-> 0, sleeping |-> 0, stop |-> stop, say |-> <<>>]
    ELSE after_loop(stop, notes)

\* while not should_stop and capture_count < MAX_CAPTURES: call the oracle
while_head(stop, count, notes) ==
  IF ~stop /\ count < MAX_CAPTURES
    THEN [pc |-> "llm", tick |-> 0, sleeping |-> 0, stop |-> stop, say |-> <<>>]
    ELSE after_loop(stop, notes)

\* interval_wait that sleeps the whole interval without testing the flag
interval_wait_unchecked(i, stop, count, notes) ==
  IF i < INTERVAL_TICKS
    THEN [pc |-> "wait", tick |-> i, sleeping |-> TICK, stop |-> stop, say |-> <<>>]
    ELSE while_head(stop, count, notes)

\* for _ in range(30): if should_stop: break; await asyncio.sleep(1)
interval_wait(i, stop, count, notes) ==
  IF i < INTERVAL_TICKS /\ ~stop
    THEN [pc |-> "wait", tick |-> i, sleeping |-> TICK, stop |-> stop, say |-> <<>>]
    ELSE while_head(stop, count, notes)

\* on_error that lets an error that is no rate limit leave auto_capture
on_error_fatal(e, stop, count, notes) ==
  IF IsRateLimit(e)
    THEN [pc |-> "cooldown", tick |-> 0, sleeping |-> COOLDOWN, stop |-> stop, say |-> <<>>]
    ELSE [pc |-> "raised", tick |-> 0, sleeping |-> 0, stop |-> stop, say |-> <<>>]

\* except: rate limit -> sleep 60 and continue; otherwise the interval wait
on_error(e, stop, count, notes) ==
  IF IsRateLimit(e)
    THEN [pc |-> "cooldown", tick |-> 0, sleeping |-> COOLDOWN, stop |-> stop, say |-> <<>>]
    ELSE interval_wait(0, stop, count, notes)

Resume(k) ==
  /\ capture_pc' = k.pc
  /\ tick' = k.tick
  /\ sleeping' = k.sleeping
  /\ should_stop' = k.stop
  /\ notifications' = notifications \o k.say

(***************************************************************************)
(* The body of the try block for a result, as a change of the session's    *)
(* data: notes list, counter, topic, path, directory, rename calls.        *)
(***************************************************************************)
Data ==
  [notes |-> session_notes, count |-> capture_count, topic |-> TOPIC_NAME,
   path |-> NOTES_FILE, fs |-> fs, renames |-> renames]

\* first_snapshot that keeps the topic unset, and so tries again, until
\* a rename has moved the file
first_snapshot_retry(d, text, moved) ==
  IF d.topic = None
    THEN LET topic == extract_topic_from_note(text)
             r == rename_notes_file(d.fs, d.path, topic, moved)
         IN  [d EXCEPT !.topic = IF moved THEN Some(topic) ELSE None,
                       !.path = r.path,
                       !.fs = RewriteTitle(r.fs, r.path, topic),
                       !.renames = Append(@, [old |-> d.path, new |-> r.path,
                                              content |-> d.fs[d.path]])]
    ELSE d

\* if capture_count == 1 and TOPIC_NAME is None: topic, rename, title
first_snapshot(d, text, moved) ==
  IF d.count = 1 /\ d.topic = None
    THEN LET topic == extract_topic_from_note(text)
             r == rename_notes_file(d.fs, d.path, topic, moved)
         IN  [d EXCEPT !.topic = Some(topic),
                       !.path = r.path,
                       !.fs = RewriteTitle(r.fs, r.path, topic),
                       !.renames = Append(@, [old |-> d.path, new |-> r.path,
                                              content |-> d.fs[d.path]])]
    ELSE d

\* accept that numbers the block with the length of the list before the append
accept_stale_number(d, text, moved) ==
  LET d1 == [d EXCEPT !.notes = Append(@, text), !.count = @ + 1]
      d2 == first_snapshot(d1, text, moved)
  IN  [d2 EXCEPT !.fs = append_note(@, d2.path, text, Len(d.notes))]

\* accept that writes the block first and runs the first snapshot's branch after
accept_append_first(d, text, moved) ==
  LET d1 == [d EXCEPT !.notes = Append(@, text), !.count = @ + 1]
      d2 == [d1 EXCEPT !.fs = append_note(@, d1.path, text, Len(d1.notes))]
  IN  first_snapshot(d2, text, moved)

\* session_notes.append; capture_count += 1; first snapshot; append_note
accept(d, text, moved) ==
  LET d1 == [d EXCEPT !.notes = Append(@, text), !.count = @ + 1]
      d2 == first_snapshot(d1, text, moved)
  IN  [d2 EXCEPT !.fs = append_note(@, d2.path, text, Len(d2.notes))]

on_result(d, text, moved) == IF Accepted(text) THEN accept(d, text, moved) ELSE d

Store(d) ==
  /\ session_notes' = d.notes
  /\ capture_count' = d.count
  /\ TOPIC_NAME' = d.topic
  /\ NOTES_FILE' = d.path
  /\ fs' = d.fs
  /\ renames' = d.renames

(***************************************************************************)
(* join_call up to the start of the two workers.                           *)
(***************************************************************************)
Init ==
  /\ session_notes = <<>>
  /\ TOPIC_NAME = None
  /\ NOTES_FILE = init_notes_file(DEFAULT_TOPIC).path
  /\ fs = init_notes_file(DEFAULT_TOPIC).fs
  /\ should_stop = FALSE
  /\ capture_count = 0
  /\ capture_pc = "settle"
  /\ tick = 0
  /\ sleeping = SETTLE_DELAY
  /\ reply = None
  /\ listen_pc = "listening"
  /\ inbox = None
  /\ join_pc = "gather"
  /\ notifications = <<>>
  /\ renames = <<>>
  /\ last_cycle = "none"

(***************************************************************************)
(* auto_capture.  The oracle call is in flight while capture_pc = "llm":   *)
(* its outcome arrives (the awaited future is resolved), and the worker    *)
(* resumes with it when the event loop next runs it.                       *)
(***************************************************************************)
\* asyncio.sleep(20) returns; capture_count = 0; the loop is entered
SettleDone ==
  /\ capture_pc = "settle"
  /\ Resume(while_head(should_stop, 0, session_notes))
  /\ capture_count' = 0
  /\ UNCHANGED <<session_notes, NOTES_FILE, TOPIC_NAME, fs, reply,
                 listen_pc, inbox, join_pc, renames, last_cycle>>

\* the oracle answers the call in flight
OracleReturns ==
  /\ capture_pc = "llm"
  /\ reply = None
  /\ \E response \in Responses : reply' = Some([raised |-> FALSE, val |-> response])
  /\ UNCHANGED <<session_notes, NOTES_FILE, TOPIC_NAME, fs, should_stop,
                 capture_count, capture_pc, tick, sleeping, listen_pc, inbox,
                 join_pc, notifications, renames, last_cycle>>

\* the oracle call in flight fails with an exception e: str(e) is its text
OracleRaises ==
  /\ capture_pc = "llm"
  /\ reply = None
  /\ \E e \in OracleErrors :
       reply' = Some([raised |-> TRUE, val |-> [kind |-> "error", val |-> e]])
  /\ UNCHANGED <<session_notes, NOTES_FILE, TOPIC_NAME, fs, should_stop,
                 capture_count, capture_pc, tick, sleeping, listen_pc, inbox,
                 join_pc, notifications, renames, last_cycle>>

\* os.rename is reached only by the first accepted snapshot: its outcomes
RenameOutcomes(d, text) ==
  IF Accepted(text) /\ d.count = 0 /\ d.topic = None THEN BOOLEAN ELSE {TRUE}

\* the worker resumes with a response: the rest of the try block and the
\* interval loop run to the next await
LlmReturn ==
  /\ capture_pc = "llm"
  /\ reply # None
  /\ ~reply[1].raised
  /\ \E text \in {Normalize(reply[1].val)} :
       \E moved \in RenameOutcomes(Data, text) :
         \E d \in {on_result(Data, text, moved)} :
           /\ Store(d)
           /\ Resume(interval_wait(0, should_stop, d.count, d.notes))
           /\ last_cycle' = IF Accepted(text) THEN "accepted" ELSE "rejected"
  /\ reply' = None
  /\ UNCHANGED <<listen_pc, inbox, join_pc>>

\* the worker resumes with the exception of the oracle call
LlmRaise ==
  /\ capture_pc = "llm"
  /\ reply # None
  /\ reply[1].raised
  /\ LET err == reply[1].val.val
     IN  /\ Resume(on_error(err, should_stop, capture_count, session_notes))
         /\ last_cycle' = IF IsRateLimit(err) THEN "rate_limited" ELSE "failed"
  /\ reply' = None
  /\ UNCHANGED <<session_notes, NOTES_FILE, TOPIC_NAME, fs, capture_count,
                 listen_pc, inbox, join_pc, renames>>

\* asyncio.sleep(60) returns; continue
CooldownDone ==
  /\ capture_pc = "cooldown"
  /\ Resume(while_head(should_stop, capture_count, session_notes))
  /\ UNCHANGED <<session_notes, NOTES_FILE, TOPIC_NAME, fs, capture_count,
                 reply, listen_pc, inbox, join_pc, renames, last_cycle>>

\* asyncio.sleep(1) returns; next iteration of the interval loop
WaitTick ==
  /\ capture_pc = "wait"
  /\ Resume(interval_wait(tick + 1, should_stop, capture_count, session_notes))
  /\ UNCHANGED <<session_notes, NOTES_FILE, TOPIC_NAME, fs, capture_count,
                 reply, listen_pc, inbox, join_pc, renames, last_cycle>>

\* agent.simple_response("Session complete! ...") returns
AnnounceReturn ==
  /\ capture_pc = "announce"
  /\ capture_pc' = "done"
  /\ UNCHANGED <<session_notes, NOTES_FILE, TOPIC_NAME, fs, should_stop,
                 capture_count, tick, sleeping, reply, listen_pc,
                 inbox, join_pc, notifications, renames, last_cycle>>

\* agent.simple_response("Session complete! ...") raises out of auto_capture
AnnounceRaise ==
  /\ capture_pc = "announce"
  /\ capture_pc' = "raised"
  /\ UNCHANGED <<session_notes, NOTES_FILE, TOPIC_NAME, fs, should_stop,
                 capture_count, tick, sleeping, reply, listen_pc,
                 inbox, join_pc, notifications, renames, last_cycle>>

(***************************************************************************)
(* listen_for_stop.  The stream yields an event, and the listener takes it *)
(* when the event loop next runs it.                                       *)
(***************************************************************************)
\* the transcript without .lower()
Heard_no_lower(event) ==
  Strip(IF event.text = None THEN <<>> ELSE event.text[1])

\* transcript = (getattr(event, "text", "") or "").strip().lower()
Heard(event) ==
  Lower(Strip(IF event.text = None THEN <<>> ELSE event.text[1]))

\* agent.on("user_speech_committed") yields an event
EventArrives ==
  /\ listen_pc = "listening"
  /\ inbox = None
  /\ \E event \in Events : inbox' = Some(event)
  /\ UNCHANGED <<session_notes, NOTES_FILE, TOPIC_NAME, fs, should_stop,
                 capture_count, capture_pc, tick, sleeping, reply, listen_pc,
                 join_pc, notifications, renames, last_cycle>>

\* the body of the async for, for the event taken
HearEvent ==
  /\ listen_pc = "listening"
  /\ inbox # None
  /\ \E transcript \in {Heard(inbox[1])} :
       IF IsStopIntent(transcript)
         THEN /\ should_stop' = TRUE
              /\ notifications' =
                   Append(notifications, Summary("closing", Len(session_notes)))
              /\ listen_pc' = "respond"
         ELSE UNCHANGED <<should_stop, notifications, listen_pc>>
  /\ inbox' = None
  /\ UNCHANGED <<session_notes, NOTES_FILE, TOPIC_NAME, fs, capture_count,
                 capture_pc, tick, sleeping, reply, join_pc, renames, last_cycle>>

\* agent.simple_response("Got it! ...") returns; break
RespondReturn ==
  /\ listen_pc = "respond"
  /\ listen_pc' = "stopped"
  /\ UNCHANGED <<session_notes, NOTES_FILE, TOPIC_NAME, fs, should_stop,
                 capture_count, capture_pc, tick, sleeping, reply, inbox,
                 join_pc, notifications, renames, last_cycle>>

\* agent.simple_response("Got it! ...") raises; caught by the listener
RespondRaise ==
  /\ listen_pc = "respond"
  /\ listen_pc' = "failed"
  /\ UNCHANGED <<session_notes, NOTES_FILE, TOPIC_NAME, fs, should_stop,
                 capture_count, capture_pc, tick, sleeping, reply, inbox,
                 join_pc, notifications, renames, last_cycle>>

\* the event stream raises; caught by the listener
StreamRaise ==
  /\ listen_pc = "listening"
  /\ inbox = None
  /\ listen_pc' = "failed"
  /\ UNCHANGED <<session_notes, NOTES_FILE, TOPIC_NAME, fs, should_stop,
                 capture_count, capture_pc, tick, sleeping, reply, inbox,
                 join_pc, notifications, renames, last_cycle>>

\* the event stream is exhausted (the call ended)
StreamEnd ==
  /\ listen_pc = "listening"
  /\ inbox = None
  /\ listen_pc' = "ended"
  /\ UNCHANGED <<session_notes, NOTES_FILE, TOPIC_NAME, fs, should_stop,
                 capture_count, capture_pc, tick, sleeping, reply, inbox,
                 join_pc, notifications, renames, last_cycle>>

ListenerOver == listen_pc \in {"stopped", "failed", "ended"}

(***************************************************************************)
(* join_call: asyncio.gather returns when both workers are over, or raises *)
(* what auto_capture raised; then agent.finish().                          *)
(***************************************************************************)
GatherOver ==
  \/ capture_pc = "done" /\ ListenerOver
  \/ capture_pc = "raised"

Finish ==
  /\ join_pc = "gather"
  /\ GatherOver
  /\ join_pc' = "finished"
  /\ UNCHANGED <<session_notes, NOTES_FILE, TOPIC_NAME, fs, should_stop,
                 capture_count, capture_pc, tick, sleeping, reply,
                 listen_pc, inbox, notifications, renames, last_cycle>>

Next ==
  \/ SettleDone
  \/ OracleReturns
  \/ OracleRaises
  \/ LlmReturn
  \/ LlmRaise
  \/ CooldownDone
  \/ WaitTick
  \/ AnnounceReturn
  \/ AnnounceRaise
  \/ EventArrives
  \/ HearEvent
  \/ RespondReturn
  \/ RespondRaise
  \/ StreamRaise
  \/ StreamEnd
  \/ Finish

Spec == Init /\ [][Next]_vars

(***************************************************************************)
(* Scheduling.  The event loop runs every task that is ready, and every    *)
(* awaited oracle call, sleep and notification comes back: a step of       *)
(* auto_capture, of the listener's body or of join_call that stays         *)
(* possible is taken.  Whether the stream yields another event, ends or    *)
(* fails is up to the caller: nothing is assumed about it.                 *)
(***************************************************************************)
CaptureStep ==
  \/ SettleDone
  \/ OracleReturns
  \/ OracleRaises
  \/ LlmReturn
  \/ LlmRaise
  \/ CooldownDone
  \/ WaitTick
  \/ AnnounceReturn
  \/ AnnounceRaise

ListenerStep ==
  \/ HearEvent
  \/ RespondReturn
  \/ RespondRaise

FairSpec ==
  /\ Init
  /\ [][Next]_vars
  /\ WF_vars(CaptureStep)
  /\ WF_vars(ListenerStep)
  /\ WF_vars(Finish)

(***************************************************************************)
(* The log as a reader meets it: the header written by init_notes_file and *)
(* then blocks written by append_note, for any text and any number the     *)
(* caller passes.  session_notes keeps the texts passed so far and         *)
(* capture_count the number passed last; the rest of the session stands    *)
(* still.                                                                  *)
(***************************************************************************)
MaxAppends == 2

TextBullets == <<"-"," ","N","o","d","e","s","\n","-"," ","E","d","g","e","s">>

TextQuoting == <<"S","e","e"," ","#","#"," ","S","n","a","p","s","h","o","t"," ","9","\n","e","n","d">>

NoteTexts == {TextGraphs, TextBST, TextBullets, TextQuoting}

NoteNumbers == {1, 2, 12}

ParseInit == Init

ParseAppend ==
  /\ Len(session_notes) < MaxAppends
  /\ \E text \in NoteTexts, snapshot_num \in NoteNumbers :
       /\ fs' = append_note(fs, NOTES_FILE, text, snapshot_num)
       /\ session_notes' = Append(session_notes, text)
       /\ capture_count' = snapshot_num
  /\ UNCHANGED <<NOTES_FILE, TOPIC_NAME, should_stop, capture_pc, tick,
                 sleeping, reply, listen_pc, inbox, join_pc, notifications,
                 renames, last_cycle>>

ParseNext == ParseAppend

ParseSpec == ParseInit /\ [][ParseNext]_vars

(***************************************************************************)
(* Reading the log: the file at the session's path, the snapshots the      *)
(* reader finds in it, and the region below the header.                    *)
(***************************************************************************)
Log == fs[NOTES_FILE]

Snapshots == parse_snapshots(Log)

\* the content below the header's separator line
BelowHeader(content) ==
  LET sep == <<"\n","-","-","-","\n","\n">>
      i == IndexOf(content, sep)
  IN  IF i = 0 THEN <<>> ELSE SubSeq(content, i + Len(sep), Len(content))

RECURSIVE WrittenBlocks(_, _)
WrittenBlocks(notes, first) ==
  IF notes = <<>> THEN <<>>
  ELSE SnapshotBlock(Head(notes), first) \o WrittenBlocks(Tail(notes), first + 1)

IsPrefix(a, b) == Len(a) <= Len(b) /\ SubSeq(b, 1, Len(a)) = a

RenameFailed == Len(renames) = 1 /\ renames[1].new = renames[1].old

RenameMoved == Len(renames) = 1 /\ renames[1].new # renames[1].old

TypeOK ==
  /\ NOTES_FILE \in DOMAIN fs
  /\ capture_count \in 0..MAX_CAPTURES
  /\ tick \in 0..INTERVAL_TICKS
  /\ should_stop \in BOOLEAN
  /\ capture_pc \in {"settle", "llm", "cooldown", "wait", "announce", "done", "raised"}
  /\ listen_pc \in {"listening", "respond", "stopped", "failed", "ended"}
  /\ join_pc \in {"gather", "finished"}

(***************************************************************************)
(* C1.  In every reachable state the snapshots found in the log carry      *)
(* exactly the numbers 1..k, in ascending order, without gap or repeat,    *)
(* where k = capture_count is the number of captures accepted so far.      *)
(***************************************************************************)
C1_NumbersAreOneToK ==
  \A found \in {Snapshots} :
    /\ Len(found) = capture_count
    /\ \A i \in 1..Len(found) : found[i].number = Decimal(i)

\* two accepted captures (and whatever came between) after a failed rename
C1_Witness ==
  /\ capture_count >= 2
  /\ Len(Snapshots) = capture_count
  /\ RenameFailed

(***************************************************************************)
(* C2.  At every suspension point of the capture worker (an oracle call in *)
(* flight, the cooldown, a tick of the interval wait) the log holds one    *)
(* snapshot per accepted capture: block count, counter and length of the   *)
(* in-memory list agree, and the region below the header is exactly the    *)
(* blocks of the in-memory notes, so none is held only in memory.          *)
(***************************************************************************)
C2_FlushedBeforeNextCycle ==
  /\ Len(Snapshots) = capture_count
  /\ capture_count = Len(session_notes)
  /\ BelowHeader(Log) = WrittenBlocks(session_notes, 1)

\* a new oracle call begins while the listener has an event to take
C2_Witness ==
  /\ capture_pc = "llm"
  /\ reply = None
  /\ inbox # None
  /\ capture_count >= 1
  /\ Len(Snapshots) = capture_count

(***************************************************************************)
(* C3.  The log is append-only for snapshots: every step leaves the        *)
(* snapshots already in the log in place and unchanged, both as the        *)
(* reader's entries and as the characters below the header; the rename and *)
(* the rewrite of the title are among these steps.                         *)
(***************************************************************************)
C3_AppendOnly ==
  [][Log' # Log =>
       \A before \in {Log}, after \in {Log'} :
         /\ IsPrefix(parse_snapshots(before), parse_snapshots(after))
         /\ IsPrefix(BelowHeader(before), BelowHeader(after))]_vars

\* the file was moved, its title rewritten, and snapshots were added after
C3_Witness ==
  /\ RenameMoved
  /\ TOPIC_NAME # None
  /\ IndexOf(Log, <<"#"," ">> \o TOPIC_NAME[1]) = 1
  /\ TOPIC_NAME[1] # DEFAULT_TOPIC
  /\ Len(Snapshots) >= 2

(***************************************************************************)
(* C4.  A cycle whose result is empty after trimming, or contains "no      *)
(* lecture content detected" in any letter case, leaves the counter, the   *)
(* in-memory notes, the directory, the log path and the topic unchanged.   *)
(***************************************************************************)
C4_RejectedText(response) ==
  LET raw == IF response.kind = "object" THEN <<>> ELSE response.val
      trimmed == StripChars(raw, Whitespace)
  IN  trimmed = <<>> \/ Contains(Lower(trimmed), SENTINEL)

C4_RejectedChangesNothing ==
  [][(/\ capture_pc = "llm"
      /\ reply # None
      /\ reply' = None
      /\ ~reply[1].raised
      /\ C4_RejectedText(reply[1].val))
     => UNCHANGED <<capture_count, session_notes, fs, NOTES_FILE, TOPIC_NAME>>]_vars

\* a rejected cycle has completed in a session that already holds a snapshot
C4_Witness ==
  /\ last_cycle = "rejected"
  /\ capture_pc = "wait"
  /\ capture_count = 1
  /\ Len(Snapshots) = 1

(***************************************************************************)
(* C5.  rename_notes_file (with the topic extraction) is called at most    *)
(* once, on the step that takes the counter from 0 to 1, and the topic,    *)
(* once set, never changes.                                                *)
(***************************************************************************)
C5_RenameOnce ==
  /\ [](/\ Len(renames) <= 1
        /\ (Len(renames) = 1) <=> (capture_count >= 1)
        /\ (TOPIC_NAME # None) <=> (capture_count >= 1))
  /\ [][/\ renames' # renames => (capture_count = 0 /\ capture_count' = 1)
        /\ TOPIC_NAME # None => TOPIC_NAME' = TOPIC_NAME]_vars

\* the rename failed and a later snapshot was accepted without a retry
C5_Witness ==
  /\ RenameFailed
  /\ capture_count >= 2
  /\ last_cycle = "accepted"

(***************************************************************************)
(* C6.  An oracle failure whose text contains "429" or, in any case,       *)
(* "quota" puts the worker in the 60-unit cooldown; when the cooldown ends *)
(* the worker starts a new oracle call at once if should_stop is false     *)
(* (and ends otherwise), without the interval wait; neither step changes   *)
(* the counter, the in-memory notes or the log.                            *)
(***************************************************************************)
C6_RateLimitSignal(e) ==
  \/ Contains(e, <<"4","2","9">>)
  \/ \E q \in {<<"q","u","o","t","a">>, <<"Q","u","o","t","a">>, <<"Q","U","O","T","A">>} :
       Contains(e, q)

C6_RateLimitRetry ==
  [][/\ (/\ capture_pc = "llm"
         /\ reply # None
         /\ reply' = None
         /\ reply[1].raised
         /\ C6_RateLimitSignal(reply[1].val.val))
        => /\ capture_pc' = "cooldown"
           /\ sleeping' = 60
           /\ UNCHANGED <<capture_count, session_notes, fs, NOTES_FILE>>
     /\ (capture_pc = "cooldown" /\ capture_pc' # "cooldown")
        => /\ UNCHANGED <<capture_count, session_notes, fs, NOTES_FILE>>
           /\ IF should_stop
                THEN capture_pc' = "done"
                ELSE capture_pc' = "llm" /\ reply' = None]_vars

\* after a cooldown the retried call is in flight
C6_Witness ==
  /\ last_cycle = "rate_limited"
  /\ capture_pc = "llm"
  /\ reply = None
  /\ capture_count >= 1

(***************************************************************************)
(* C7.  should_stop is false when the workers start and, once true, stays  *)
(* true in every later state.                                              *)
(***************************************************************************)
C7_StopWriteOnce ==
  /\ should_stop = FALSE
  /\ [][should_stop => should_stop']_vars

\* the listener set the flag and the capture worker has ended on it
C7_Witness ==
  /\ should_stop
  /\ listen_pc = "stopped"
  /\ capture_pc = "done"
  /\ Len(notifications) = 1

(***************************************************************************)
(* C8.  For every event the listener takes: if the trimmed, lower-cased    *)
(* transcript contains one of "stop", "end", "quit", "finish", "bye",      *)
(* "save", the listener sets should_stop, sends one closing notification   *)
(* and leaves the stream; if not, should_stop is unchanged, nothing is     *)
(* sent and the listener keeps listening.  A listener that left the stream *)
(* takes no further event.                                                 *)
(***************************************************************************)
C8_Transcript(event) ==
  IF event.text = None THEN <<>> ELSE Lower(StripChars(event.text[1], Whitespace))

C8_HasStopWord(t) ==
  \E w \in { <<"s","t","o","p">>, <<"e","n","d">>, <<"q","u","i","t">>,
             <<"f","i","n","i","s","h">>, <<"b","y","e">>, <<"s","a","v","e">> } :
    Contains(t, w)

C8_StopIntent ==
  [][/\ (listen_pc = "listening" /\ inbox # None /\ inbox' = None)
        => IF C8_HasStopWord(C8_Transcript(inbox[1]))
             THEN /\ should_stop'
                  /\ Len(notifications') = Len(notifications) + 1
                  /\ notifications'[Len(notifications')].kind = "closing"
                  /\ listen_pc' = "respond"
             ELSE /\ should_stop' = should_stop
                  /\ notifications' = notifications
                  /\ listen_pc' = "listening"
     /\ listen_pc # "listening" => (listen_pc' # "listening" /\ inbox' = None)
     /\ inbox = Some([text |-> Some(HearStop)]) /\ inbox' = None => should_stop'
     /\ inbox = Some([text |-> Some(HearFine)]) /\ inbox' = None
          => should_stop' = should_stop]_vars

\* the listener heard a stop word, notified and left the stream
C8_Witness ==
  /\ listen_pc = "stopped"
  /\ should_stop
  /\ \E i \in 1..Len(notifications) : notifications[i].kind = "closing"

(***************************************************************************)
(* C9.  When the session is finalized, a summary notification stating a    *)
(* snapshot count has been sent, whichever way the session ended.          *)
(***************************************************************************)
C9_SummaryBeforeFinish ==
  join_pc = "finished" =>
    \E i \in 1..Len(notifications) :
      /\ notifications[i].kind \in {"closing", "complete"}
      /\ notifications[i].saved \in 0..MAX_CAPTURES

\* finalized on the error raised by the capture worker, the listener still on
C9_Witness ==
  /\ join_pc = "finished"
  /\ capture_pc = "raised"
  /\ listen_pc = "listening"

(***************************************************************************)
(* C10.  The count stated in a summary notification equals the number of   *)
(* snapshots in the log when the session is finalized.                     *)
(***************************************************************************)
C10_SummaryCountIsLogCount ==
  join_pc = "finished" =>
    \A i \in 1..Len(notifications) : notifications[i].saved = Len(Snapshots)

(***************************************************************************)
(* C11.  If the listener never sets should_stop (it sends no closing       *)
(* notification), the capture worker eventually leaves its loop: it sets   *)
(* should_stop and sends the session-complete notification, whatever the   *)
(* oracle answers, as long as every call and every sleep comes back.       *)
(***************************************************************************)
C11_CeilingEndsSession ==
  [](\A i \in 1..Len(notifications) : notifications[i].kind # "closing")
    => <>(/\ should_stop
          /\ \E i \in 1..Len(notifications) : notifications[i].kind = "complete")

(***************************************************************************)
(* C12.  Once should_stop is set, by either worker, the session is         *)
(* eventually finalized (the gather returns and the agent is finished),    *)
(* without any further event from the stream.                              *)
(***************************************************************************)
C12_StopLeadsToFinish == should_stop ~> (join_pc = "finished")

(***************************************************************************)
(* C13.  parse_snapshots inverts the append format: the header alone has   *)
(* no entry, and every append_note(text, n) adds exactly one entry at the  *)
(* end, with number str(n) and content the text without its surrounding    *)
(* whitespace, leaving the earlier entries as they were.  So a header      *)
(* followed by k appended snapshots parses to exactly those k entries.     *)
(***************************************************************************)
C13_ParseInvertsAppend ==
  /\ parse_snapshots(Log) = <<>>
  /\ [][fs' # fs =>
         \A before \in {parse_snapshots(Log)}, after \in {parse_snapshots(Log')} :
           after = Append(before,
                          [number |-> Decimal(capture_count'),
                           content |-> StripChars(session_notes'[Len(session_notes')],
                                                  Whitespace)])]_vars

(***************************************************************************)
(* C14.  On the cycle that accepts the first snapshot the topic is         *)
(* extracted, the file renamed and its title rewritten before Snapshot 1   *)
(* is written: the file handed to the rename holds the header and no       *)
(* snapshot block, the new name is made from the topic extracted from the  *)
(* text, and when the step is over the counter is at least 1 and the log   *)
(* at the resulting path starts with the rewritten title and holds the     *)
(* block of Snapshot 1.                                                    *)
(***************************************************************************)
C14_RenameBeforeSnapshotWritten ==
  \A i \in 1..Len(renames) :
    /\ renames[i].content = Header(DEFAULT_TOPIC)
    /\ ~Contains(renames[i].content, MARKER)
    /\ capture_count >= 1
    /\ TOPIC_NAME = Some(extract_topic_from_note(session_notes[1]))
    /\ renames[i].new \in {renames[i].old, NotesPath(slugify(TOPIC_NAME[1]), StampRename)}
    /\ NOTES_FILE = renames[i].new
    /\ IndexOf(Log, <<"#"," ">> \o TOPIC_NAME[1] \o <<"\n">>) = 1
    /\ Contains(Log, SnapshotBlock(session_notes[1], 1))

\* the file was moved with the header alone and Snapshot 1 written after
C14_Witness ==
  /\ RenameMoved
  /\ renames[1].content = Header(DEFAULT_TOPIC)
  /\ capture_count = 1
  /\ Len(Snapshots) = 1
  /\ last_cycle = "accepted"

\* C14 as stated: the block of Snapshot 1 is in the file when the rename is
\* attempted
C14_SnapshotWrittenBeforeRename ==
  \A i \in 1..Len(renames) :
    Contains(renames[i].content, MARKER \o <<"1","\n">>)

(***************************************************************************)
(* C15.  Setting should_stop leaves an oracle call in flight, or a         *)
(* cooldown, as it is; once should_stop is true the capture worker starts  *)
(* no new oracle call, and the only snapshot still written is the result   *)
(* of the call that was in flight, after which the worker is over: the     *)
(* counter ends at most one above the count of the moment the flag was     *)
(* set (the count stated in the notification sent with it).                *)
(***************************************************************************)
C15_CallStarts ==
  /\ capture_pc' = "llm"
  /\ reply' = None
  /\ ~(capture_pc = "llm" /\ reply = None)

C15_NoNewCallAfterStop ==
  /\ [](\A i \in 1..Len(notifications) : capture_count <= notifications[i].saved + 1)
  /\ [][/\ (~should_stop /\ should_stop' /\ capture_pc \in {"llm", "cooldown"})
            => UNCHANGED <<capture_pc, reply, sleeping, capture_count>>
        /\ should_stop => ~C15_CallStarts
        /\ (should_stop /\ capture_count' # capture_count)
            => /\ capture_pc = "llm"
               /\ capture_count' = capture_count + 1
               /\ capture_pc' = "done"
        /\ capture_pc = "done" => UNCHANGED <<capture_pc, capture_count, fs>>]_vars

\* the call in flight when the listener set the flag gave one more snapshot
C15_Witness ==
  /\ should_stop
  /\ capture_pc = "done"
  /\ Len(notifications) = 1
  /\ notifications[1].kind = "closing"
  /\ capture_count = notifications[1].saved + 1
  /\ Len(Snapshots) = capture_count

(***************************************************************************)
(* C16.  The wait between two cycles is a series of sleeps of one          *)
(* time-unit, with should_stop tested before each.  If the flag is set     *)
(* during the wait, the worker, when the sleep of one unit it is in comes  *)
(* back, leaves the wait and its loop and is over: no further sleep, no    *)
(* oracle call, no notification of its own.  With the flag unset it goes   *)
(* on to the next sleep, or after the last one to the head of the loop.    *)
(***************************************************************************)
C16_WaitStep == capture_pc = "wait" /\ (capture_pc' # "wait" \/ tick' # tick)

C16_WaitObservesStop ==
  [][/\ capture_pc = "wait" => (sleeping = 1 /\ tick < INTERVAL_TICKS)
     /\ (C16_WaitStep /\ should_stop)
         => /\ capture_pc' = "done"
            /\ UNCHANGED <<capture_count, notifications, fs, should_stop>>
     /\ (C16_WaitStep /\ ~should_stop /\ tick + 1 < INTERVAL_TICKS)
         => (capture_pc' = "wait" /\ tick' = tick + 1 /\ sleeping' = 1)
     /\ (C16_WaitStep /\ ~should_stop /\ tick + 1 >= INTERVAL_TICKS)
         => capture_pc' \in {"llm", "announce"}]_vars

\* the flag was set during the wait after an accepted capture, below the
\* ceiling, and the worker ended without another cycle
C16_Witness ==
  /\ capture_pc = "done"
  /\ Len(notifications) = 1
  /\ notifications[1].kind = "closing"
  /\ notifications[1].saved = capture_count
  /\ last_cycle = "accepted"
  /\ capture_count < MAX_CAPTURES

(***************************************************************************)
(* C17.  The counter, and with it the number of snapshots in the log,      *)
(* never exceeds MAX_CAPTURES.  The step on which the capture worker       *)
(* leaves its loop with should_stop still false is at the ceiling: it sets *)
(* should_stop and sends one session-complete notification stating the     *)
(* count; the step on which it leaves with should_stop already set sends   *)
(* nothing.  No session holds two session-complete notifications.          *)
(***************************************************************************)
C17_Completes == {i \in 1..Len(notifications) : notifications[i].kind = "complete"}

C17_LeavesLoop ==
  /\ capture_pc \in {"settle", "llm", "cooldown", "wait"}
  /\ capture_pc' \notin {"settle", "llm", "cooldown", "wait"}

C17_CeilingAndCompletion ==
  /\ [](/\ capture_count <= MAX_CAPTURES
        /\ Len(Snapshots) <= MAX_CAPTURES
        /\ Cardinality(C17_Completes) <= 1
        /\ C17_Completes # {} => (should_stop /\ capture_count = MAX_CAPTURES))
  /\ [][/\ (C17_LeavesLoop /\ ~should_stop)
            => /\ capture_count' = MAX_CAPTURES
               /\ should_stop'
               /\ capture_pc' = "announce"
               /\ notifications' =
                    Append(notifications, [kind |-> "complete", saved |-> MAX_CAPTURES])
        /\ (C17_LeavesLoop /\ should_stop)
            => /\ capture_pc' = "done"
               /\ notifications' = notifications
        /\ ~C17_LeavesLoop =>
              \A i \in 1..Len(notifications') :
                notifications'[i].kind = "complete" =>
                  (i <= Len(notifications) /\ notifications[i] = notifications'[i])]_vars

\* the ceiling was reached with the flag unset: one session-complete sent
C17_Witness ==
  /\ capture_count = MAX_CAPTURES
  /\ Len(Snapshots) = MAX_CAPTURES
  /\ capture_pc = "done"
  /\ notifications = <<[kind |-> "complete", saved |-> MAX_CAPTURES]>>

(***************************************************************************)
(* C18.  An oracle failure whose text holds neither "429" nor "quota" is   *)
(* skipped: the step that takes it leaves the counter, the in-memory       *)
(* notes, the directory and the log path unchanged and puts the worker at  *)
(* the start of the interval wait (or ends it, if should_stop is set); the *)
(* worker never ends on an oracle error; and when that wait is over and    *)
(* should_stop is unset, the next oracle call is made.                     *)
(***************************************************************************)
C18_OtherFailure(e) ==
  /\ ~Contains(e, <<"4","2","9">>)
  /\ ~Contains(Lower(e), <<"q","u","o","t","a">>)

C18_FailureIsSkipped ==
  [][/\ (/\ capture_pc = "llm"
         /\ reply # None
         /\ reply' = None
         /\ reply[1].raised
         /\ C18_OtherFailure(reply[1].val.val))
        => /\ UNCHANGED <<capture_count, session_notes, fs, NOTES_FILE, TOPIC_NAME>>
           /\ IF should_stop
                THEN capture_pc' = "done"
                ELSE capture_pc' = "wait" /\ tick' = 0
     /\ (capture_pc = "llm" /\ capture_pc' # "llm")
        => capture_pc' \in {"wait", "cooldown", "done"}
     /\ (/\ last_cycle = "failed"
         /\ capture_pc = "wait"
         /\ tick' # tick
         /\ tick + 1 >= INTERVAL_TICKS
         /\ ~should_stop)
        => (capture_pc' = "llm" /\ reply' = None)]_vars

\* after a failed call and the interval, the next call is in flight
C18_Witness ==
  /\ last_cycle = "failed"
  /\ capture_pc = "llm"
  /\ reply = None
  /\ ~should_stop
  /\ capture_count >= 1

(***************************************************************************)
(* C19.  When the move of the first accepted snapshot fails (the file is   *)
(* still under its old name), the log path stays the old one, no second    *)
(* rename is tried, every accepted snapshot, the first included, is in     *)
(* the file under the old name, and the step on which the move failed      *)
(* goes on to the interval wait like any accepted cycle.                   *)
(***************************************************************************)
C19_MoveFailed == Len(renames) >= 1 /\ renames[1].old \in DOMAIN fs

C19_FailedRenameKeepsPath ==
  /\ [](C19_MoveFailed =>
          /\ NOTES_FILE = renames[1].old
          /\ Len(renames) = 1
          /\ DOMAIN fs = {renames[1].old}
          /\ capture_count = Len(session_notes)
          /\ capture_count >= 1
          /\ BelowHeader(fs[renames[1].old]) = WrittenBlocks(session_notes, 1))
  /\ [][(renames' # renames /\ NOTES_FILE \in DOMAIN fs')
          => /\ NOTES_FILE' = NOTES_FILE
             /\ capture_count' = 1
             /\ IF should_stop
                  THEN capture_pc' = "done"
                  ELSE capture_pc' = "wait" /\ tick' = 0]_vars

\* the move failed and the session ran to the ceiling on the old file
C19_Witness ==
  /\ C19_MoveFailed
  /\ NOTES_FILE = init_notes_file(DEFAULT_TOPIC).path
  /\ capture_count = MAX_CAPTURES
  /\ Len(parse_snapshots(fs[NOTES_FILE])) = MAX_CAPTURES
  /\ capture_pc = "done"

(***************************************************************************)
(* C20.  A session holds at most one summary notification, the listener's  *)
(* closing one or the capture worker's session-complete one, whatever the  *)
(* order in which the two workers run.                                     *)
(***************************************************************************)
C20_AtMostOneSummary ==
  Cardinality({i \in 1..Len(notifications) :
                 notifications[i].kind \in {"closing", "complete"}}) <= 1

====
